---- MODULE Spec2Model ----
(***************************************************************************)
(* Roulette service (services/roulette/python): the Spin handler of        *)
(* roulette_service_grpc.py with its helpers redis_helper.py,              *)
(* scoring_helper.py and featureflags.py.                                  *)
(*                                                                         *)
(* One handler invocation per worker thread.  The handler is cut at the    *)
(* points where the code reads the random source or calls a collaborator:  *)
(*   start -GetFlag-> draw -Draw-> cheat -Cheat-> evaluate -Evaluate->     *)
(*   house -HouseAdvantage-> save -SaveGameState-> record                  *)
(*   -RecordGameResultAsync-> return -Return-> done                        *)
(* An exception that escapes the handler ends it in "raised".  The thread  *)
(* started by record_game_result_async runs RecordGameResult on its own.   *)
(*                                                                         *)
(* Amounts are naturals, probabilities are hundredths (0.30 is 30), and a  *)
(* random.random() draw is a hundredth in 0..99.                           *)
(***************************************************************************)
EXTENDS Integers, Sequences, FiniteSets, TLC

\* ---------------------------------------------------------------- bounds
NumThreads == 2
MaxLegs == 2
MaxAmount == 2

Threads == 1..NumThreads
Amounts == 0..MaxAmount

\* ------------------------------------------------------- program constants
RED_NUMBERS == {1, 3, 5, 7, 9, 12, 14, 16, 18, 19, 21, 23, 25, 27, 30, 32, 34, 36}
WheelMax == 36
Numbers == 0..WheelMax
DefaultBetAmount == 10
StraightMultiplier == 36
EvenMoneyMultiplier == 2
HouseEdgeChance == 25

\* random.random(): sample points of [0,1) in hundredths, on both sides of
\* every threshold the code compares against.
RandomUnit == {0, 24, 25, 29, 30, 34, 35, 39, 40, 99}

\* ------------------------------------------------------------ python values
\* A target as it arrives: None, an int, a numeric string, a non-numeric
\* string, the empty string, or a value of a type int() rejects (a list).
None == [tag |-> "none", n |-> 0]
IntV(n) == [tag |-> "int", n |-> n]
StrV(n) == [tag |-> "str", n |-> n]
TextV == [tag |-> "text", n |-> 0]
EmptyV == [tag |-> "empty", n |-> 0]
ListV == [tag |-> "list", n |-> 0]

\* Python truthiness, as used by `a or b`.
Truthy(v) ==
    CASE v.tag = "none" -> FALSE
      [] v.tag = "int" -> v.n # 0
      [] v.tag = "str" -> TRUE
      [] v.tag = "text" -> TRUE
      [] v.tag = "empty" -> FALSE
      [] v.tag = "list" -> TRUE

PyOr(a, b) == IF Truthy(a) THEN a ELSE b

\* int(v): the number, or the exception it raises.
PyInt(v) ==
    CASE v.tag = "int" -> [exc |-> "", n |-> v.n]
      [] v.tag = "str" -> [exc |-> "", n |-> v.n]
      [] v.tag = "text" -> [exc |-> "ValueError", n |-> 0]
      [] v.tag = "empty" -> [exc |-> "ValueError", n |-> 0]
      [] v.tag = "none" -> [exc |-> "TypeError", n |-> 0]
      [] v.tag = "list" -> [exc |-> "TypeError", n |-> 0]

\* A map key: "bet_" (or nothing) followed by a body; int(key.replace('bet_', ''))
\* parses the body.
Key(prefixed, body) == [prefixed |-> prefixed, body |-> body]
KeyNumber(k) == PyInt(k.body)

\* A leg of bet_value: a dict or an object carrying type, amount and a target
\* under the name "value" or "Value" (vname "absent": no such entry/attribute).
Leg(fmt, key, type, vname, value, amount) ==
    [fmt |-> fmt, key |-> key, type |-> type, vname |-> vname,
     value |-> value, amount |-> amount]

\* bet.get(name) on a dict leg / getattr on an object leg.
Field(bet, name) == IF bet.vname = name THEN bet.value ELSE None
HasAttr(bet, name) == bet.fmt = "obj" /\ bet.vname = name

\* ----------------------------------------------------------- wheel model
\* Mutation: an unknown kind falls back to a chance instead of 0.
get_cheat_boost_chance_UnknownBoosts(cheat_type) ==
    CASE cheat_type = "ballControl" -> 30
      [] cheat_type = "wheelBias" -> 25
      [] cheat_type = "magneticField" -> 40
      [] cheat_type = "sectorPrediction" -> 35
      [] OTHER -> 30

get_cheat_boost_chance(cheat_type) ==
    CASE cheat_type = "ballControl" -> 30
      [] cheat_type = "wheelBias" -> 25
      [] cheat_type = "magneticField" -> 40
      [] cheat_type = "sectorPrediction" -> 35
      [] OTHER -> 0

\* Mutation: no green pocket, 0 falls through to the red/black test.
get_color_NoGreen(number) ==
    IF number \in RED_NUMBERS THEN "red" ELSE "black"

get_color(number) ==
    IF number = 0 THEN "green"
    ELSE IF number \in RED_NUMBERS THEN "red" ELSE "black"

\* ------------------------------------------------------- request defaults
\* bet_type = request.bet_type or "red"; bet_amount = request.bet_amount or 10
BetType(req) == IF req.bet_type = "" THEN "red" ELSE req.bet_type
BetAmount(req) == IF req.bet_amount = 0 THEN DefaultBetAmount ELSE req.bet_amount
\* username = "Anonymous" unless player_info carries one
Username(req) == IF req.player_info = "" THEN "Anonymous" ELSE req.player_info
\* `bet_type == "multiple" and bet_value`
IsMultiple(req) == BetType(req) = "multiple" /\ Len(req.bet_value) > 0

\* ---------------------------------------------------------- cheat adjuster
\* The target of a leg as the cheat code reads it.
bet_value_inner(bet) ==
    IF bet.fmt = "dict"
    THEN PyOr(Field(bet, "value"), Field(bet, "Value"))
    ELSE IF HasAttr(bet, "value") THEN bet.value
         ELSE IF HasAttr(bet, "Value") THEN bet.value ELSE None

\* The numbers one leg adds to potential_winning_numbers.
LegCandidates(bet) ==
    LET v == bet_value_inner(bet)
        p == PyInt(v)
    IN  IF bet.type = "straight" /\ v # None
        THEN IF p.exc = "" /\ 0 <= p.n /\ p.n <= 36 THEN {p.n} ELSE {}
        ELSE CASE bet.type = "red" -> RED_NUMBERS
               [] bet.type = "black" -> (1..36) \ RED_NUMBERS
               [] bet.type = "even" -> {n \in 2..36 : n % 2 = 0}
               [] bet.type = "odd" -> {n \in 1..36 : n % 2 = 1}
               [] bet.type = "low" -> 1..18
               [] bet.type = "high" -> 19..36
               [] OTHER -> {}

potential_winning_numbers(bet_value) ==
    UNION {LegCandidates(bet_value[i]) : i \in 1..Len(bet_value)}

\* Mutation: the cheat accepts a straight target without the 0..36 range check.
StraightTargets_NoRangeCheck(bet_value) ==
    {i \in 1..Len(bet_value) :
        LET v == bet_value_inner(bet_value[i])
            p == PyInt(v)
        IN  v # None /\ p.exc = ""}

\* Single-mode straight: the legs, in order, whose target the cheat accepts.
StraightTargets(bet_value) ==
    {i \in 1..Len(bet_value) :
        LET v == bet_value_inner(bet_value[i])
            p == PyInt(v)
        IN  v # None /\ p.exc = "" /\ 0 <= p.n /\ p.n <= 36}

FirstOf(S) == CHOOSE i \in S : \A j \in S : i <= j

Drawn(number, boosted) ==
    [winning_number |-> number, color |-> get_color(number), cheat_boosted |-> boosted]

\* Mutation: the black replacement is drawn from every number of 1..36.
CheatBoost_BlackFromAll(req, number, color) ==
    CASE IsMultiple(req) ->
            IF potential_winning_numbers(req.bet_value) # {}
            THEN {Drawn(n, TRUE) : n \in potential_winning_numbers(req.bet_value)}
            ELSE {[winning_number |-> number, color |-> color, cheat_boosted |-> TRUE]}
      [] ~IsMultiple(req) /\ BetType(req) = "red" /\ color # "red" ->
            {[winning_number |-> n, color |-> "red", cheat_boosted |-> TRUE] :
                n \in RED_NUMBERS}
      [] ~IsMultiple(req) /\ BetType(req) = "black" /\ color # "black" ->
            {[winning_number |-> n, color |-> "black", cheat_boosted |-> TRUE] :
                n \in 1..36}
      [] ~IsMultiple(req) /\ BetType(req) = "straight" /\ Len(req.bet_value) > 0 ->
            IF StraightTargets(req.bet_value) # {}
            THEN {Drawn(PyInt(bet_value_inner(
                     req.bet_value[FirstOf(StraightTargets(req.bet_value))])).n, TRUE)}
            ELSE {[winning_number |-> number, color |-> color, cheat_boosted |-> TRUE]}
      [] OTHER -> {[winning_number |-> number, color |-> color, cheat_boosted |-> TRUE]}

\* What the boosted branch does to the number once the draw is below the chance.
CheatBoost(req, number, color) ==
    CASE IsMultiple(req) ->
            IF potential_winning_numbers(req.bet_value) # {}
            THEN {Drawn(n, TRUE) : n \in potential_winning_numbers(req.bet_value)}
            ELSE {[winning_number |-> number, color |-> color, cheat_boosted |-> TRUE]}
      [] ~IsMultiple(req) /\ BetType(req) = "red" /\ color # "red" ->
            {[winning_number |-> n, color |-> "red", cheat_boosted |-> TRUE] :
                n \in RED_NUMBERS}
      [] ~IsMultiple(req) /\ BetType(req) = "black" /\ color # "black" ->
            {[winning_number |-> n, color |-> "black", cheat_boosted |-> TRUE] :
                n \in (1..36) \ RED_NUMBERS}
      [] ~IsMultiple(req) /\ BetType(req) = "straight" /\ Len(req.bet_value) > 0 ->
            IF StraightTargets(req.bet_value) # {}
            THEN {Drawn(PyInt(bet_value_inner(
                     req.bet_value[FirstOf(StraightTargets(req.bet_value))])).n, TRUE)}
            ELSE {[winning_number |-> number, color |-> color, cheat_boosted |-> TRUE]}
      [] OTHER -> {[winning_number |-> number, color |-> color, cheat_boosted |-> TRUE]}

\* Every (number, color, cheat_boosted) the cheat block can leave behind.
CheatOutcomes(req, number, color) ==
    IF req.cheat_active /\ req.cheat_type # ""
    THEN UNION {IF r < get_cheat_boost_chance(req.cheat_type)
                THEN CheatBoost(req, number, color)
                ELSE {[winning_number |-> number, color |-> color,
                       cheat_boosted |-> FALSE]} : r \in RandomUnit}
    ELSE {[winning_number |-> number, color |-> color, cheat_boosted |-> FALSE]}

\* ----------------------------------------------------------- bet evaluator
\* The target of a straight leg as the multiple-mode evaluator reads it.
bet_number_value(bet) ==
    IF bet.fmt = "dict"
    THEN PyOr(Field(bet, "value"), Field(bet, "Value"))
    ELSE IF HasAttr(bet, "value") THEN bet.value
         ELSE IF HasAttr(bet, "Value") THEN bet.value ELSE None

\* Mutation: even is tested by parity alone, so 0 counts as even.
bet_win_ZeroIsEven(bet, number, color) ==
    CASE bet.type = "red" -> color = "red"
      [] bet.type = "black" -> color = "black"
      [] bet.type = "even" -> number % 2 = 0
      [] bet.type = "odd" -> number > 0 /\ number % 2 = 1
      [] bet.type = "low" -> 1 <= number /\ number <= 18
      [] bet.type = "high" -> 19 <= number /\ number <= 36
      [] bet.type = "straight" ->
            LET v == bet_number_value(bet)
                p == PyInt(v)
            IN  v # None /\ p.exc = "" /\ number = p.n
      [] OTHER -> FALSE

\* bet_win of one leg in multiple mode.
bet_win(bet, number, color) ==
    CASE bet.type = "red" -> color = "red"
      [] bet.type = "black" -> color = "black"
      [] bet.type = "even" -> number > 0 /\ number % 2 = 0
      [] bet.type = "odd" -> number > 0 /\ number % 2 = 1
      [] bet.type = "low" -> 1 <= number /\ number <= 18
      [] bet.type = "high" -> 19 <= number /\ number <= 36
      [] bet.type = "straight" ->
            LET v == bet_number_value(bet)
                p == PyInt(v)
            IN  v # None /\ p.exc = "" /\ number = p.n
      [] OTHER -> FALSE

\* payout_amount of one leg in multiple mode.
payout_amount(bet, number, color) ==
    IF bet_win(bet, number, color)
    THEN IF bet.type = "straight"
         THEN bet.amount * StraightMultiplier
         ELSE bet.amount * EvenMoneyMultiplier
    ELSE 0

RECURSIVE total_payout(_, _, _)
total_payout(bet_value, number, color) ==
    IF bet_value = <<>> THEN 0
    ELSE payout_amount(Head(bet_value), number, color)
         + total_payout(Tail(bet_value), number, color)

\* Mutation: win is overwritten by every leg, so the last leg decides.
EvalMultiple_LastLegDecides(req, number, color) ==
    [exc |-> "",
     win |-> bet_win(req.bet_value[Len(req.bet_value)], number, color),
     payout |-> total_payout(req.bet_value, number, color)]

EvalMultiple(req, number, color) ==
    [exc |-> "",
     win |-> \E i \in 1..Len(req.bet_value) : bet_win(req.bet_value[i], number, color),
     payout |-> total_payout(req.bet_value, number, color)]

\* Single-mode straight: int(bet.value) if the leg has that attribute, else the
\* number in the key; ValueError and AttributeError skip the leg, anything
\* else escapes.
bet_number(bet) ==
    IF HasAttr(bet, "value") THEN PyInt(bet.value) ELSE KeyNumber(bet.key)

\* Mutation: a straight win pays the 35:1 winnings without the stake.
RECURSIVE StraightScan_Pays35(_, _, _)
StraightScan_Pays35(bet_value, number, bet_amount) ==
    IF bet_value = <<>> THEN [exc |-> "", win |-> FALSE, payout |-> 0]
    ELSE LET p == bet_number(Head(bet_value))
         IN  CASE p.exc = "TypeError" -> [exc |-> "TypeError", win |-> FALSE, payout |-> 0]
               [] p.exc = "" /\ p.n = number ->
                    [exc |-> "", win |-> TRUE, payout |-> bet_amount * 35]
               [] OTHER -> StraightScan_Pays35(Tail(bet_value), number, bet_amount)

RECURSIVE StraightScan(_, _, _)
StraightScan(bet_value, number, bet_amount) ==
    IF bet_value = <<>> THEN [exc |-> "", win |-> FALSE, payout |-> 0]
    ELSE LET p == bet_number(Head(bet_value))
         IN  CASE p.exc = "TypeError" -> [exc |-> "TypeError", win |-> FALSE, payout |-> 0]
               [] p.exc = "" /\ p.n = number ->
                    [exc |-> "", win |-> TRUE, payout |-> bet_amount * StraightMultiplier]
               [] OTHER -> StraightScan(Tail(bet_value), number, bet_amount)

\* Mutation: an even-money win pays the stake once (1:1 without the stake back).
EvenMoney_PaysOnce(w, bet_amount) ==
    [exc |-> "", win |-> w, payout |-> IF w THEN bet_amount ELSE 0]

EvenMoney(w, bet_amount) ==
    [exc |-> "", win |-> w, payout |-> IF w THEN bet_amount * EvenMoneyMultiplier ELSE 0]

EvalSingle(req, number, color) ==
    CASE BetType(req) = "red" -> EvenMoney(color = "red", BetAmount(req))
      [] BetType(req) = "black" -> EvenMoney(color = "black", BetAmount(req))
      [] BetType(req) = "even" -> EvenMoney(number > 0 /\ number % 2 = 0, BetAmount(req))
      [] BetType(req) = "odd" -> EvenMoney(number > 0 /\ number % 2 = 1, BetAmount(req))
      [] BetType(req) = "low" -> EvenMoney(1 <= number /\ number <= 18, BetAmount(req))
      [] BetType(req) = "high" -> EvenMoney(number >= 19 /\ number <= 36, BetAmount(req))
      [] BetType(req) = "straight" -> StraightScan(req.bet_value, number, BetAmount(req))
      [] OTHER -> [exc |-> "", win |-> FALSE, payout |-> 0]

\* "Calculate win and payout": the raw result, before the house advantage.
Evaluation(req, number, color) ==
    IF IsMultiple(req) THEN EvalMultiple(req, number, color)
    ELSE EvalSingle(req, number, color)

\* ------------------------------------------------------ house-edge adjuster
\* Mutation: the house edge is applied without looking at the flag.
HouseOutcomes_IgnoresFlag(w, p, enabled) ==
    IF w /\ p > 0
    THEN {IF r < HouseEdgeChance THEN [win |-> FALSE, payout |-> 0]
          ELSE [win |-> w, payout |-> p] : r \in RandomUnit}
    ELSE {[win |-> w, payout |-> p]}

HouseOutcomes(w, p, enabled) ==
    IF w /\ p > 0 /\ enabled
    THEN {IF r < HouseEdgeChance THEN [win |-> FALSE, payout |-> 0]
          ELSE [win |-> w, payout |-> p] : r \in RandomUnit}
    ELSE {[win |-> w, payout |-> p]}

\* ------------------------------------------------------------ flag source
\* What the flagd request of get_feature_flag can meet:
\*   "down"            urlopen raises URLError (unreachable, connect timeout)
\*   "http_error"      urlopen raises HTTPError
\*   "dropped"         the connection is lost while the answer is read
\*                     (http.client.RemoteDisconnected / IncompleteRead,
\*                     ConnectionResetError: none of them a URLError)
\*   "malformed"       the body is not JSON (JSONDecodeError)
\*   "not_object"      the body is JSON but no object (a number, null):
\*                     `"state" in data` raises TypeError
\*   "disabled"        an object whose state is not ENABLED
\*   "enabled_true" / "enabled_false"   ENABLED with defaultVariant "true" / "false"
\*   "enabled_on"      ENABLED with a variant name that is no boolean
\*                     (json.loads raises ValueError, caught inside)
\*   "enabled_number"  ENABLED with a defaultVariant that is no string
\*                     (variant.lower() raises AttributeError)
FlagdReplies ==
    {"down", "http_error", "dropped", "malformed", "not_object", "disabled",
     "enabled_true", "enabled_false", "enabled_on", "enabled_number"}

\* get_feature_flag("casino.house-advantage", False): the environment variable
\* wins when set; otherwise flagd's answer, and the default when there is none.
\* Only URLError, HTTPError, TimeoutError and JSONDecodeError are caught around
\* the request (exc: what escapes).
get_feature_flag(source, default_value) ==
    CASE source.env # "unset" -> [value |-> source.env \in {"true", "1", "yes"}, exc |-> ""]
      [] source.env = "unset" /\ source.flagd = "enabled_true" -> [value |-> TRUE, exc |-> ""]
      [] source.env = "unset" /\ source.flagd = "enabled_false" -> [value |-> FALSE, exc |-> ""]
      [] source.env = "unset" /\ source.flagd = "dropped" ->
            [value |-> default_value, exc |-> "ConnectionError"]
      [] source.env = "unset" /\ source.flagd = "not_object" ->
            [value |-> default_value, exc |-> "TypeError"]
      [] source.env = "unset" /\ source.flagd = "enabled_number" ->
            [value |-> default_value, exc |-> "AttributeError"]
      [] OTHER -> [value |-> default_value, exc |-> ""]

\* ------------------------------------------------------------------ state
VARIABLES
    request,                 \* per thread: the SpinRequest being served
    pc,                      \* per thread: where the handler stands
    house_advantage_enabled, \* per thread: the flag as read by this spin
    winning_number, color, cheat_boosted, win, payout,   \* per thread: locals
    response,                \* per thread: <<>> or <<the SpinResponse>>
    game_result,             \* per thread: <<>> or <<the record handed to scoring>>
    scoring_thread,          \* per thread: "none", "started", "recorded", "failed"
    scoring_received,        \* the records the scoring service accepted
    redis,                   \* the store: username -> <<>> or <<game_state>>
    redis_client,            \* "none" or "connected" (set by initialize_redis)
    redis_up,                \* whether setex succeeds
    scoring_service,         \* "ok", "error" (non-2xx) or "down"
    flag_source              \* [env, flagd]: what get_feature_flag will see

vars == <<request, pc, house_advantage_enabled, winning_number, color, cheat_boosted,
          win, payout, response, game_result, scoring_thread, scoring_received,
          redis, redis_client, redis_up, scoring_service, flag_source>>

env_vars == <<redis_client, redis_up, scoring_service, flag_source>>
local_vars == <<house_advantage_enabled, winning_number, color, cheat_boosted, win, payout>>

Usernames == {"Anonymous", "alice"}

Request(bet_type, bet_amount, bet_value, cheat_active, cheat_type, player_info) ==
    [bet_type |-> bet_type, bet_amount |-> bet_amount, bet_value |-> bet_value,
     cheat_active |-> cheat_active, cheat_type |-> cheat_type,
     player_info |-> player_info]

\* The request slot of a worker that serves nothing.
NoRequest == Request("", 0, <<>>, FALSE, "", "")

\* ------------------------------------------------------------- the handler
\* house_advantage_enabled = get_feature_flag("casino.house-advantage", False)
GetFlag(t) ==
    /\ pc[t] = "start"
    /\ LET f == get_feature_flag(flag_source, FALSE)
       IN  /\ house_advantage_enabled' =
                 [house_advantage_enabled EXCEPT ![t] = f.value]
           /\ pc' = [pc EXCEPT ![t] = IF f.exc = "" THEN "draw" ELSE "raised"]
    /\ UNCHANGED <<request, winning_number, color, cheat_boosted, win, payout, response,
                   game_result, scoring_thread, scoring_received, redis, env_vars>>

\* winning_number = random.randint(0, 36); color = get_color(winning_number)
Draw(t) ==
    /\ pc[t] = "draw"
    /\ \E n \in Numbers :
          /\ winning_number' = [winning_number EXCEPT ![t] = n]
          /\ color' = [color EXCEPT ![t] = get_color(n)]
    /\ cheat_boosted' = [cheat_boosted EXCEPT ![t] = FALSE]
    /\ pc' = [pc EXCEPT ![t] = "cheat"]
    /\ UNCHANGED <<request, house_advantage_enabled, win, payout, response,
                   game_result, scoring_thread, scoring_received, redis, env_vars>>

\* "Apply cheat logic"
Cheat(t) ==
    /\ pc[t] = "cheat"
    /\ \E o \in CheatOutcomes(request[t], winning_number[t], color[t]) :
          /\ winning_number' = [winning_number EXCEPT ![t] = o.winning_number]
          /\ color' = [color EXCEPT ![t] = o.color]
          /\ cheat_boosted' = [cheat_boosted EXCEPT ![t] = o.cheat_boosted]
    /\ pc' = [pc EXCEPT ![t] = "evaluate"]
    /\ UNCHANGED <<request, house_advantage_enabled, win, payout, response,
                   game_result, scoring_thread, scoring_received, redis, env_vars>>

\* Mutation: the bet is read from a slot of the servicer object that every
\* worker shares (here: the one worker 1 filled).
Evaluate_SharedRequest(t) ==
    /\ pc[t] = "evaluate"
    /\ LET e == Evaluation(request[1], winning_number[t], color[t])
       IN  /\ win' = [win EXCEPT ![t] = e.win]
           /\ payout' = [payout EXCEPT ![t] = e.payout]
           /\ pc' = [pc EXCEPT ![t] = IF e.exc = "" THEN "house" ELSE "raised"]
    /\ UNCHANGED <<request, house_advantage_enabled, winning_number, color, cheat_boosted,
                   response, game_result, scoring_thread, scoring_received, redis,
                   env_vars>>

\* "Calculate win and payout"; an exception nothing catches ends the handler.
Evaluate(t) ==
    /\ pc[t] = "evaluate"
    /\ LET e == Evaluation(request[t], winning_number[t], color[t])
       IN  /\ win' = [win EXCEPT ![t] = e.win]
           /\ payout' = [payout EXCEPT ![t] = e.payout]
           /\ pc' = [pc EXCEPT ![t] = IF e.exc = "" THEN "house" ELSE "raised"]
    /\ UNCHANGED <<request, house_advantage_enabled, winning_number, color, cheat_boosted,
                   response, game_result, scoring_thread, scoring_received, redis,
                   env_vars>>

\* "Apply house advantage feature flag if enabled"
HouseAdvantage(t) ==
    /\ pc[t] = "house"
    /\ \E o \in HouseOutcomes(win[t], payout[t], house_advantage_enabled[t]) :
          /\ win' = [win EXCEPT ![t] = o.win]
          /\ payout' = [payout EXCEPT ![t] = o.payout]
    /\ pc' = [pc EXCEPT ![t] = "save"]
    /\ UNCHANGED <<request, house_advantage_enabled, winning_number, color, cheat_boosted,
                   response, game_result, scoring_thread, scoring_received, redis,
                   env_vars>>

\* Mutation: the saved record carries the payout as evaluated, before the
\* house advantage.
GameState_RawPayout(t) ==
    [winning_number |-> winning_number[t], color |-> color[t], win |-> win[t],
     payout |-> Evaluation(request[t], winning_number[t], color[t]).payout,
     bet_amount |-> BetAmount(request[t]),
     bet_type |-> BetType(request[t]), cheat_active |-> request[t].cheat_active,
     cheat_type |-> request[t].cheat_type, cheat_boosted |-> cheat_boosted[t]]

\* The game_state dict built by Spin.
GameState(t) ==
    [winning_number |-> winning_number[t], color |-> color[t], win |-> win[t],
     payout |-> payout[t], bet_amount |-> BetAmount(request[t]),
     bet_type |-> BetType(request[t]), cheat_active |-> request[t].cheat_active,
     cheat_type |-> request[t].cheat_type, cheat_boosted |-> cheat_boosted[t]]

\* save_game_state(username, game_state): called by Spin itself; no client is a
\* no-op, and an exception of setex is caught inside (exc: what escapes).
\* Mutation: the setex exception is not caught.
save_game_state_Raises(store, client, up, username, game_state) ==
    IF client = "none" THEN [redis |-> store, exc |-> ""]
    ELSE IF up THEN [redis |-> [store EXCEPT ![username] = <<game_state>>], exc |-> ""]
    ELSE [redis |-> store, exc |-> "ConnectionError"]

\* Mutation: the save is not performed inside the call.
save_game_state_Deferred(store, client, up, username, game_state) ==
    [redis |-> store, exc |-> ""]

\* Mutation: the save overwrites the outcome fields of the record already
\* stored under the key, one field at a time, instead of the whole value.
save_game_state_FieldWise(store, client, up, username, game_state) ==
    IF client = "none" THEN [redis |-> store, exc |-> ""]
    ELSE IF up
         THEN [redis |->
                  [store EXCEPT ![username] =
                      IF store[username] = <<>> THEN <<game_state>>
                      ELSE <<[store[username][1] EXCEPT
                                !.winning_number = game_state.winning_number,
                                !.color = game_state.color,
                                !.win = game_state.win,
                                !.payout = game_state.payout]>>],
               exc |-> ""]
         ELSE [redis |-> store, exc |-> ""]

save_game_state(store, client, up, username, game_state) ==
    IF client = "none" THEN [redis |-> store, exc |-> ""]
    ELSE IF up THEN [redis |-> [store EXCEPT ![username] = <<game_state>>], exc |-> ""]
    ELSE [redis |-> store, exc |-> ""]

SaveGameState(t) ==
    /\ pc[t] = "save"
    /\ LET s == save_game_state(redis, redis_client, redis_up,
                                Username(request[t]), GameState(t))
       IN  /\ redis' = s.redis
           /\ pc' = [pc EXCEPT ![t] = IF s.exc = "" THEN "record" ELSE "raised"]
    /\ UNCHANGED <<request, local_vars, response, game_result, scoring_thread,
                   scoring_received, env_vars>>

RECURSIVE SumAmounts(_)
SumAmounts(bet_value) ==
    IF bet_value = <<>> THEN 0
    ELSE Head(bet_value).amount + SumAmounts(Tail(bet_value))

\* "Calculate total bet amount"
total_bet_amount(req) ==
    IF IsMultiple(req) THEN SumAmounts(req.bet_value) ELSE BetAmount(req)

\* Mutation: the record reports the raw win flag, whatever the payout.
GameResult_RawWin(t) ==
    [username |-> Username(request[t]), betAmount |-> total_bet_amount(request[t]),
     payout |-> payout[t], win |-> win[t],
     result |-> IF win[t] THEN "win" ELSE "lose",
     winning_number |-> winning_number[t], color |-> color[t],
     bet_type |-> BetType(request[t]), cheat_active |-> request[t].cheat_active,
     cheat_type |-> request[t].cheat_type, cheat_boosted |-> cheat_boosted[t]]

\* The dict handed to record_game_result_async.
GameResult(t) ==
    [username |-> Username(request[t]), betAmount |-> total_bet_amount(request[t]),
     payout |-> payout[t], win |-> (win[t] /\ payout[t] > 0),
     result |-> IF win[t] /\ payout[t] > 0 THEN "win" ELSE "lose",
     winning_number |-> winning_number[t], color |-> color[t],
     bet_type |-> BetType(request[t]), cheat_active |-> request[t].cheat_active,
     cheat_type |-> request[t].cheat_type, cheat_boosted |-> cheat_boosted[t]]

\* record_game_result_async: starts a daemon thread and returns at once.
RecordGameResultAsync(t) ==
    /\ pc[t] = "record"
    /\ game_result' = [game_result EXCEPT ![t] = <<GameResult(t)>>]
    /\ scoring_thread' = [scoring_thread EXCEPT ![t] = "started"]
    /\ pc' = [pc EXCEPT ![t] = "return"]
    /\ UNCHANGED <<request, local_vars, response, scoring_received, redis, env_vars>>

\* return roulette_pb2.SpinResponse(...)
Return(t) ==
    /\ pc[t] = "return"
    /\ response' = [response EXCEPT ![t] =
          <<[winning_number |-> winning_number[t], color |-> color[t], win |-> win[t],
             payout |-> payout[t], cheat_active |-> request[t].cheat_active,
             cheat_type |-> request[t].cheat_type,
             cheat_boosted |-> cheat_boosted[t]]>>]
    /\ pc' = [pc EXCEPT ![t] = "done"]
    /\ UNCHANGED <<request, local_vars, game_result, scoring_thread, scoring_received,
                   redis, env_vars>>

\* record_game_result, on the thread record_game_result_async started: True on
\* a 2xx answer, False (logged) on any other answer or failure.
record_game_result(service) == [ok |-> service = "ok", exc |-> ""]

RecordGameResult(t) ==
    /\ scoring_thread[t] = "started"
    /\ LET r == record_game_result(scoring_service)
       IN  /\ scoring_thread' = [scoring_thread EXCEPT ![t] =
                 IF r.ok THEN "recorded" ELSE "failed"]
           /\ scoring_received' =
                 IF r.ok THEN scoring_received \cup {game_result[t][1]}
                 ELSE scoring_received
           \* an exception on the daemon thread cannot reach the handler
           /\ pc' = pc
    /\ UNCHANGED <<request, local_vars, response, game_result, redis, env_vars>>

Next ==
    \E t \in Threads :
        \/ GetFlag(t)
        \/ Draw(t)
        \/ Cheat(t)
        \/ Evaluate(t)
        \/ HouseAdvantage(t)
        \/ SaveGameState(t)
        \/ RecordGameResultAsync(t)
        \/ Return(t)
        \/ RecordGameResult(t)

\* ------------------------------------------------------ initial conditions
Env(env, flagd, client, up, service) ==
    [flag_source |-> [env |-> env, flagd |-> flagd], redis_client |-> client,
     redis_up |-> up, scoring_service |-> service]

\* Worker 1 serves one request of Reqs in one environment of Envs; the other
\* workers are idle.
InitWith(Reqs, Envs) ==
    /\ request \in {[t \in Threads |-> IF t = 1 THEN r ELSE NoRequest] : r \in Reqs}
    /\ pc = [t \in Threads |-> IF t = 1 THEN "start" ELSE "idle"]
    /\ house_advantage_enabled = [t \in Threads |-> FALSE]
    /\ winning_number = [t \in Threads |-> 0]
    /\ color = [t \in Threads |-> "green"]
    /\ cheat_boosted = [t \in Threads |-> FALSE]
    /\ win = [t \in Threads |-> FALSE]
    /\ payout = [t \in Threads |-> 0]
    /\ response = [t \in Threads |-> <<>>]
    /\ game_result = [t \in Threads |-> <<>>]
    /\ scoring_thread = [t \in Threads |-> "none"]
    /\ scoring_received = {}
    /\ redis = [u \in Usernames |-> <<>>]
    /\ \E e \in Envs :
          /\ flag_source = e.flag_source
          /\ redis_client = e.redis_client
          /\ redis_up = e.redis_up
          /\ scoring_service = e.scoring_service

\* Cheat settings: off, on without a kind, the four kinds, an unknown kind.
CheatConfigs ==
    {<<FALSE, "">>, <<FALSE, "ballControl">>, <<TRUE, "">>, <<TRUE, "ballControl">>,
     <<TRUE, "wheelBias">>, <<TRUE, "magneticField">>, <<TRUE, "sectorPrediction">>,
     <<TRUE, "lucky">>}
CheatOnOff == {<<FALSE, "">>, <<TRUE, "ballControl">>}

\* Single mode, every kind but straight (bet_value is not read), "" (defaults
\* to red), an unrecognized kind, and "multiple" without legs.
SimpleTypes == {"", "red", "black", "even", "odd", "low", "high", "split", "multiple"}
SimpleRequests ==
    {Request(k, a, <<>>, c[1], c[2], "") : k \in SimpleTypes, a \in Amounts, c \in CheatConfigs}

TargetValues == {None, IntV(0), IntV(17), IntV(37), StrV(0), TextV, ListV}
LegKeys == {Key(TRUE, StrV(17)), Key(FALSE, TextV)}

\* Single-mode straight legs: every way the target can be carried.
StraightLegs ==
    {Leg(f, k, "straight", n, v, 1) :
        f \in {"dict", "obj"}, k \in LegKeys, n \in {"value", "Value"}, v \in TargetValues}
    \cup {Leg(f, k, "straight", "absent", None, 1) : f \in {"dict", "obj"}, k \in LegKeys}

StraightRequests ==
    {Request("straight", a, <<l>>, c[1], c[2], "") :
        a \in Amounts, l \in StraightLegs, c \in CheatOnOff}
    \cup {Request("straight", a, <<>>, c[1], c[2], "") : a \in Amounts, c \in CheatOnOff}

\* Legs of a multiple-mode bet: every kind, an unrecognized kind, and straight
\* legs with target 0, 5, an unparseable target and no target.
MultiLegs ==
    {Leg("dict", Key(FALSE, TextV), k, "absent", None, 1) :
        k \in {"black", "even", "odd", "low", "high", "split"}}
    \cup {Leg("obj", Key(FALSE, TextV), "red", "absent", None, 10),
          Leg("dict", Key(FALSE, TextV), "straight", "value", IntV(0), 1),
          Leg("obj", Key(FALSE, TextV), "straight", "value", IntV(0), 2),
          Leg("dict", Key(FALSE, TextV), "straight", "value", IntV(5), 5),
          Leg("obj", Key(FALSE, TextV), "straight", "value", ListV, 1),
          Leg("dict", Key(FALSE, TextV), "straight", "absent", None, 1)}

BoundedSeq(S, n) == UNION {[1..m -> S] : m \in 0..n}

\* Multiple mode without cheat over every leg, and with cheat over legs with
\* no candidate number, one candidate and eighteen.
CheatLegs ==
    {Leg("dict", Key(FALSE, TextV), "split", "absent", None, 1),
     Leg("dict", Key(FALSE, TextV), "straight", "value", IntV(0), 1),
     Leg("dict", Key(FALSE, TextV), "straight", "value", IntV(5), 5),
     Leg("obj", Key(FALSE, TextV), "red", "absent", None, 10)}

MultipleRequests ==
    {Request("multiple", 1, bv, FALSE, "", "") :
        bv \in BoundedSeq(MultiLegs, MaxLegs) \ {<<>>}}
    \cup {Request("multiple", 1, bv, TRUE, "ballControl", "") :
        bv \in BoundedSeq(CheatLegs, MaxLegs) \ {<<>>}}

\* Store and sink healthy; the flag on (environment variable) or off (flagd
\* unreachable, default).
FlagEnvs == {Env("true", "down", "connected", TRUE, "ok"),
             Env("unset", "down", "connected", TRUE, "ok")}

Init == InitWith(SimpleRequests \cup StraightRequests \cup MultipleRequests, FlagEnvs)

Spec == Init /\ [][Next]_vars

\* Every state of the store (absent, healthy, failing) and of the sink (2xx,
\* non-2xx, unreachable), for requests of every kind.
EffectEnvs ==
    {Env(e, "down", c, u, s) :
        e \in {"true", "unset"}, c \in {"none", "connected"}, u \in BOOLEAN,
        s \in {"ok", "error", "down"}}

EffectRequests ==
    {Request(k, MaxAmount, <<>>, c[1], c[2], u) :
        k \in SimpleTypes, c \in CheatOnOff, u \in {"", "alice"}}
    \cup {Request("multiple", 1, bv, c[1], c[2], "") :
            bv \in [1..MaxLegs -> {l \in CheatLegs : l.type # "split"}], c \in CheatOnOff}

InitEffects == InitWith(EffectRequests, EffectEnvs)

SpecEffects == InitEffects /\ [][Next]_vars

\* Stakes of every amount, 0 included: single-mode bets of every kind and
\* multiple-mode bets of red legs and straight legs on 0.
StakeLegs ==
    {Leg("dict", Key(FALSE, TextV), "red", "absent", None, a) : a \in Amounts}
    \cup {Leg("obj", Key(FALSE, TextV), "straight", "value", IntV(0), a) : a \in Amounts}

StakeRequests ==
    {Request(k, a, <<>>, FALSE, "", "") : k \in SimpleTypes, a \in Amounts}
    \cup {Request("multiple", a, bv, FALSE, "", "") :
            a \in {0, MaxAmount}, bv \in BoundedSeq(StakeLegs, MaxLegs) \ {<<>>}}

InitStakes == InitWith(StakeRequests, FlagEnvs)

SpecStakes == InitStakes /\ [][Next]_vars

\* Two workers of the thread pool serve one Spin each at the same time: a red
\* bet without cheat and a black bet with cheat, of the same player or of two
\* players.
ConcurrentRequests ==
    [t \in {1, 2} |->
        {Request("red", 1, <<>>, FALSE, "", ""),
         Request("black", MaxAmount, <<>>, TRUE, "ballControl",
                 IF t = 1 THEN "" ELSE "alice")}]

InitConcurrent ==
    /\ request \in {[t \in Threads |-> IF t = 1 THEN r1 ELSE IF t = 2 THEN r2 ELSE NoRequest] :
                       r1 \in ConcurrentRequests[1], r2 \in ConcurrentRequests[2]}
    /\ pc = [t \in Threads |-> IF t \in {1, 2} THEN "start" ELSE "idle"]
    /\ house_advantage_enabled = [t \in Threads |-> FALSE]
    /\ winning_number = [t \in Threads |-> 0]
    /\ color = [t \in Threads |-> "green"]
    /\ cheat_boosted = [t \in Threads |-> FALSE]
    /\ win = [t \in Threads |-> FALSE]
    /\ payout = [t \in Threads |-> 0]
    /\ response = [t \in Threads |-> <<>>]
    /\ game_result = [t \in Threads |-> <<>>]
    /\ scoring_thread = [t \in Threads |-> "none"]
    /\ scoring_received = {}
    /\ redis = [u \in Usernames |-> <<>>]
    /\ flag_source = [env |-> "unset", flagd |-> "down"]
    /\ redis_client = "connected"
    /\ redis_up = TRUE
    /\ scoring_service = "ok"

SpecConcurrent == InitConcurrent /\ [][Next]_vars

\* Every answer of the flag source, with the environment variable unset or
\* set, for single-mode requests of every kind.
FlagSourceEnvs ==
    {Env(e, f, "connected", TRUE, "ok") :
        e \in {"unset", "true", "false"}, f \in FlagdReplies}

FlagRequests ==
    {Request(k, MaxAmount, <<>>, FALSE, "", "") : k \in SimpleTypes}

InitFlag == InitWith(FlagRequests, FlagSourceEnvs)

SpecFlag == InitFlag /\ [][Next]_vars

\* ================================================================= claims
KnownKinds == {"straight", "red", "black", "even", "odd", "low", "high"}
KnownCheatKinds == {"ballControl", "wheelBias", "magneticField", "sectorPrediction"}

\* ---------------------------------------------------------------------- C1
RECURSIVE C1_SumOver(_, _)
C1_SumOver(bet_value, S) ==
    IF S = {} THEN 0
    ELSE LET i == CHOOSE j \in S : TRUE
         IN  (IF bet_value[i].type = "straight" THEN 36 ELSE 2) * bet_value[i].amount
             + C1_SumOver(bet_value, S \ {i})

C1_WinningLegs(bet_value, number, clr) ==
    {i \in 1..Len(bet_value) : bet_win(bet_value[i], number, clr)}

\* C1: in multiple mode the raw result (after evaluation, before the house
\* edge) has win = some leg wins against the final number and color, and
\* payout = the sum over the winning legs of 36 x amount for a straight leg and
\* 2 x amount for any other leg.
C1_MultipleIsOrAndSum ==
    \A t \in Threads :
        (pc[t] = "house" /\ IsMultiple(request[t])) =>
            LET W == C1_WinningLegs(request[t].bet_value, winning_number[t], color[t])
            IN  /\ win[t] = (W # {})
                /\ payout[t] = C1_SumOver(request[t].bet_value, W)

\* Legs {red 10, straight on 5 amount 5} with number 5: won, payout 200.
C1_Witness ==
    \E t \in Threads :
        /\ pc[t] = "house"
        /\ request[t].bet_type = "multiple"
        /\ Len(request[t].bet_value) = 2
        /\ request[t].bet_value[1].type = "red"
        /\ request[t].bet_value[1].amount = 10
        /\ request[t].bet_value[2].type = "straight"
        /\ request[t].bet_value[2].value = IntV(5)
        /\ request[t].bet_value[2].amount = 5
        /\ winning_number[t] = 5
        /\ win[t]
        /\ payout[t] = 200

\* ---------------------------------------------------------------------- C2
\* A request whose only leg is a straight leg carrying the integer target n.
C2_StraightOn(req, n) ==
    /\ req.bet_type \in {"straight", "multiple"}
    /\ Len(req.bet_value) = 1
    /\ req.bet_value[1].type = "straight"
    /\ req.bet_value[1].vname \in {"value", "Value"}
    /\ req.bet_value[1].value = IntV(n)
    /\ KeyNumber(req.bet_value[1].key).exc # ""

\* C2: a straight leg with target n in 0..36 wins exactly when the final number
\* is n, in single and in multiple mode, and pays 36 x amount on a win and 0 on
\* a loss.
C2_StraightWinsOnTarget ==
    \A t \in Threads : \A n \in Numbers :
        (pc[t] = "house" /\ C2_StraightOn(request[t], n)) =>
            /\ win[t] = (winning_number[t] = n)
            /\ payout[t] =
                  IF winning_number[t] = n
                  THEN 36 * (IF request[t].bet_type = "multiple"
                             THEN request[t].bet_value[1].amount
                             ELSE BetAmount(request[t]))
                  ELSE 0

\* ---------------------------------------------------------------------- C3
EvenMoneyKinds == {"red", "black", "even", "odd", "low", "high"}

C3_Rule(kind, number) ==
    CASE kind = "red" -> number \in RED_NUMBERS
      [] kind = "black" -> number \in (1..36) \ RED_NUMBERS
      [] kind = "even" -> number > 0 /\ number % 2 = 0
      [] kind = "odd" -> number > 0 /\ number % 2 = 1
      [] kind = "low" -> number \in 1..18
      [] kind = "high" -> number \in 19..36

\* C3 as stated: in single mode, for every even-money kind and every amount a
\* of the request, 0 included, the raw result wins exactly by the kind's rule
\* and pays 2 x a on a win, 0 on a loss.
C3_PaysTwiceRequestAmount ==
    \A t \in Threads :
        (pc[t] = "house" /\ request[t].bet_type \in EvenMoneyKinds) =>
            /\ win[t] = C3_Rule(request[t].bet_type, winning_number[t])
            /\ payout[t] = IF win[t] THEN 2 * request[t].bet_amount ELSE 0

\* C3 amended: the same for every positive amount; a request amount of 0 is
\* played as the default stake 10 and so pays 20 on a win.
C3_PaysTwiceStake ==
    \A t \in Threads :
        (pc[t] = "house" /\ request[t].bet_type \in EvenMoneyKinds) =>
            /\ win[t] = C3_Rule(request[t].bet_type, winning_number[t])
            /\ payout[t] =
                  IF win[t]
                  THEN 2 * (IF request[t].bet_amount = 0 THEN 10
                            ELSE request[t].bet_amount)
                  ELSE 0

C3_Witness ==
    \E t \in Threads :
        /\ pc[t] = "house"
        /\ request[t].bet_type = "high"
        /\ request[t].bet_amount = 0
        /\ winning_number[t] = 19
        /\ win[t]
        /\ payout[t] = 20

\* ---------------------------------------------------------------------- C4
\* C4: the house-advantage step leaves (win, payout) as evaluated or sets it
\* to (FALSE, 0), the latter only with the flag on and a raw win with positive
\* payout; nothing after it changes the result, and the response carries it.
C4_HouseEdgeOnlySuppresses ==
    [][\A t \in Threads :
        /\ (pc[t] = "house" /\ pc'[t] # "house") =>
              \/ win'[t] = win[t] /\ payout'[t] = payout[t]
              \/ /\ house_advantage_enabled[t] /\ win[t] /\ payout[t] > 0
                 /\ win'[t] = FALSE /\ payout'[t] = 0
        /\ pc[t] \in {"save", "record", "return", "done"} =>
              win'[t] = win[t] /\ payout'[t] = payout[t]
        /\ (pc[t] = "return" /\ pc'[t] = "done") =>
              /\ response'[t][1].win = win[t]
              /\ response'[t][1].payout = payout[t]]_vars

\* Two legs won (raw payout 200) and the house edge turned the spin into a loss.
C4_Witness ==
    \E t \in Threads :
        /\ pc[t] = "done"
        /\ house_advantage_enabled[t]
        /\ IsMultiple(request[t])
        /\ Evaluation(request[t], winning_number[t], color[t]).payout = 200
        /\ response[t][1].win = FALSE
        /\ response[t][1].payout = 0

\* ---------------------------------------------------------------------- C5
C5_CheatOff(req) ==
    ~req.cheat_active \/ req.cheat_type = "" \/ req.cheat_type \notin KnownCheatKinds

\* C5: with cheat_active false, or the kind empty, or not one of the four known
\* kinds, the cheat step keeps the drawn number and leaves cheat_boosted
\* false, and the response carries that number and flag.
C5_CheatOffKeepsNumber ==
    [][\A t \in Threads :
        C5_CheatOff(request[t]) =>
            /\ (pc[t] = "cheat" /\ pc'[t] # "cheat") =>
                  /\ winning_number'[t] = winning_number[t]
                  /\ color'[t] = color[t]
                  /\ cheat_boosted'[t] = FALSE
            /\ pc[t] \in {"evaluate", "house", "save", "record", "return", "done"} =>
                  /\ winning_number'[t] = winning_number[t]
                  /\ cheat_boosted'[t] = FALSE
            /\ (pc[t] = "return" /\ pc'[t] = "done") =>
                  /\ response'[t][1].winning_number = winning_number[t]
                  /\ response'[t][1].cheat_boosted = FALSE]_vars

\* A spin answered with cheat active and an unknown kind: not boosted.
C5_Witness ==
    \E t \in Threads :
        /\ pc[t] = "done"
        /\ request[t].cheat_active
        /\ request[t].cheat_type = "lucky"
        /\ response[t][1].cheat_boosted = FALSE

\* ---------------------------------------------------------------------- C6
\* The spins in which the boosted branch assigns no number: a red or black bet
\* already matching, a single even, odd, low or high bet (or any other kind
\* without a rule), a straight bet without a usable target, multiple mode with
\* no candidate.
C6_NothingToReplace(req, clr) ==
    IF IsMultiple(req) THEN potential_winning_numbers(req.bet_value) = {}
    ELSE CASE BetType(req) = "red" -> clr = "red"
           [] BetType(req) = "black" -> clr = "black"
           [] BetType(req) = "straight" -> StraightTargets(req.bet_value) = {}
           [] OTHER -> TRUE

\* C6: whenever the cheat step leaves the number as drawn (nothing to replace),
\* cheat_boosted is false after it.
C6_BoostedOnlyIfReplaced ==
    [][\A t \in Threads :
        (pc[t] = "cheat" /\ pc'[t] # "cheat" /\ C6_NothingToReplace(request[t], color[t]))
            => cheat_boosted'[t] = FALSE]_vars

\* ---------------------------------------------------------------------- C7
\* A leg that cannot win: an unrecognized kind, or a straight leg with no
\* target (None, and no number in the key either).
C7_DeadLeg(bet) ==
    \/ bet.type \notin KnownKinds
    \/ /\ bet.type = "straight"
       /\ bet.value = None
       /\ KeyNumber(bet.key).exc # ""

C7_DeadRequest(req) ==
    IF IsMultiple(req) THEN \A i \in 1..Len(req.bet_value) : C7_DeadLeg(req.bet_value[i])
    ELSE \/ BetType(req) \notin KnownKinds
         \/ /\ BetType(req) = "straight"
            /\ \A i \in 1..Len(req.bet_value) : C7_DeadLeg(req.bet_value[i])

\* C7: a request all of whose legs are straight legs without target or legs of
\* an unrecognized kind is evaluated to a loss with payout 0, whatever the
\* number, in single and in multiple mode.
C7_DeadLegsLose ==
    \A t \in Threads :
        C7_DeadRequest(request[t]) =>
            /\ pc[t] # "raised"
            /\ pc[t] \in {"house", "save", "record", "return", "done"} =>
                  win[t] = FALSE /\ payout[t] = 0

\* ---------------------------------------------------------------------- C8
\* C8: no spin ends in an exception: whatever the legs' targets and kinds, the
\* handler never leaves through a raise.
C8_SpinNeverRaises == \A t \in Threads : pc[t] # "raised"

\* ---------------------------------------------------------------------- C9
\* C9 as stated: the store is written and the sink is called off the response
\* path, by a background task: no step of a handler writes the store or
\* delivers to the sink.
C9_BothOffResponsePath ==
    [][(redis' # redis \/ scoring_received' # scoring_received) => pc' = pc]_vars

\* C9 amended: only the sink submission is off the response path (its thread
\* is started by the handler and delivers on its own, before or after the
\* response); the store is written by the handler itself, in save_game_state,
\* and the response is returned after that call.
C9_OnlySinkOffResponsePath ==
    [][/\ \A t \in Threads :
             (scoring_thread[t] = "started" /\ scoring_thread'[t] # "started") => pc' = pc
       /\ redis' # redis => \E t \in Threads : pc[t] = "save" /\ pc'[t] = "record"
       /\ \A t \in Threads :
             (pc'[t] \in {"return", "done"} /\ redis_client = "connected" /\ redis_up) =>
                 redis'[Username(request[t])] # <<>>]_vars

\* The response is out, the store holds the spin, the sink has not been reached.
C9_Witness ==
    \E t \in Threads :
        /\ pc[t] = "done"
        /\ response[t] # <<>>
        /\ redis[Username(request[t])] = <<GameState(t)>>
        /\ scoring_thread[t] = "started"
        /\ scoring_received = {}

\* --------------------------------------------------------------------- C10
\* C10: whatever the store does (absent, failing, healthy) and whatever the
\* sink answers, the save, the hand-over to the sink and the delivery leave
\* the handler's number, color, win, payout and cheat_boosted untouched and
\* never end the request in an exception, and the response is made of exactly
\* those values.
C10_SideEffectsKeepOutcome ==
    [][\A t \in Threads :
        /\ pc[t] \in {"save", "record", "return", "done"} =>
              /\ pc'[t] # "raised"
              /\ winning_number'[t] = winning_number[t]
              /\ color'[t] = color[t]
              /\ win'[t] = win[t]
              /\ payout'[t] = payout[t]
              /\ cheat_boosted'[t] = cheat_boosted[t]
        /\ pc[t] = "done" => response'[t] = response[t]
        /\ (pc[t] = "return" /\ pc'[t] = "done") =>
              response'[t] =
                 <<[winning_number |-> winning_number[t], color |-> color[t],
                    win |-> win[t], payout |-> payout[t],
                    cheat_active |-> request[t].cheat_active,
                    cheat_type |-> request[t].cheat_type,
                    cheat_boosted |-> cheat_boosted[t]]>>]_vars

\* A winning response with the save failing and the sink unreachable.
C10_Witness ==
    \E t \in Threads :
        /\ pc[t] = "done"
        /\ redis_client = "connected"
        /\ ~redis_up
        /\ scoring_service = "down"
        /\ scoring_thread[t] = "failed"
        /\ response[t][1].win
        /\ response[t][1].payout > 0

\* --------------------------------------------------------------------- C11
C11_RetrievalFailures ==
    {"down", "http_error", "dropped", "malformed", "not_object", "enabled_number"}

\* C11: when the flag cannot be retrieved (service unreachable, HTTP error,
\* connection dropped while reading, malformed or unexpectedly shaped body),
\* the spin goes on with house_advantage_enabled = FALSE: the lookup never
\* ends the handler in an exception.
C11_FlagFailureFallsBack ==
    \A t \in Threads :
        (flag_source.env = "unset" /\ flag_source.flagd \in C11_RetrievalFailures) =>
            /\ pc[t] # "raised"
            /\ pc[t] \notin {"idle", "start"} => house_advantage_enabled[t] = FALSE

\* --------------------------------------------------------------------- C12
\* The red pockets as the specification lists them; the black pockets are the
\* other numbers of 1..36.
WheelRed == {1, 3, 5, 7, 9, 12, 14, 16, 18, 19, 21, 23, 25, 27, 30, 32, 34, 36}

WheelBlack == (1..36) \ WheelRed

C12_ColorSet(kind) == IF kind = "red" THEN WheelRed ELSE WheelBlack

C12_ColorBet(t) ==
    ~IsMultiple(request[t]) /\ BetType(request[t]) \in {"red", "black"}

\* C12: for a single-mode red or black bet whose cheat draw fell below the
\* threshold, the cheat step replaces a number of another color by a number
\* of the bet's color set and leaves a number of the bet's color as it is;
\* the evaluation that follows is a win.
C12_ColorCheatForcesColor ==
    [][\A t \in Threads :
          /\ (pc[t] = "cheat" /\ pc'[t] = "evaluate" /\ C12_ColorBet(t)
                /\ cheat_boosted'[t]) =>
                IF color[t] # BetType(request[t])
                THEN /\ winning_number'[t] \in C12_ColorSet(BetType(request[t]))
                     /\ color'[t] = BetType(request[t])
                ELSE /\ winning_number'[t] = winning_number[t]
                     /\ color'[t] = color[t]
          /\ (pc[t] = "evaluate" /\ pc'[t] = "house" /\ C12_ColorBet(t)
                /\ cheat_boosted[t]) => win'[t]]_vars

\* A boosted black bet on a black number, evaluated as a win.
C12_Witness ==
    \E t \in Threads :
        /\ pc[t] = "house" /\ C12_ColorBet(t)
        /\ BetType(request[t]) = "black"
        /\ request[t].cheat_type = "wheelBias"
        /\ cheat_boosted[t] /\ win[t]
        /\ winning_number[t] \in WheelBlack

\* --------------------------------------------------------------------- C13
\* The target a leg carries, when it is present and an integer of 0..36 (as a
\* number or as a numeric string).
LegTarget(bet) ==
    IF /\ bet.vname \in {"value", "Value"}
       /\ bet.value.tag \in {"int", "str"}
       /\ bet.value.n \in 0..36
    THEN {bet.value.n} ELSE {}

C13_StraightBet(t) ==
    /\ ~IsMultiple(request[t])
    /\ BetType(request[t]) = "straight"
    /\ Len(request[t].bet_value) = 1

\* C13: for a single-mode straight bet whose cheat draw fell below the
\* threshold, the cheat step sets the number to the leg's target when that
\* target is present and an integer of 0..36 (0 included), and leaves the
\* number as drawn otherwise.
C13_StraightCheatForcesTarget ==
    [][\A t \in Threads :
          (pc[t] = "cheat" /\ pc'[t] = "evaluate" /\ C13_StraightBet(t)
             /\ cheat_boosted'[t]) =>
             IF LegTarget(request[t].bet_value[1]) # {}
             THEN winning_number'[t] \in LegTarget(request[t].bet_value[1])
             ELSE winning_number'[t] = winning_number[t]]_vars

\* --------------------------------------------------------------------- C14
\* The numbers that satisfy one leg.
C14_LegNumbers(bet) ==
    CASE bet.type = "straight" -> LegTarget(bet)
      [] bet.type = "red" -> WheelRed
      [] bet.type = "black" -> WheelBlack
      [] bet.type = "even" -> {n \in 1..36 : n % 2 = 0}
      [] bet.type = "odd" -> {n \in 1..36 : n % 2 = 1}
      [] bet.type = "low" -> 1..18
      [] bet.type = "high" -> 19..36
      [] OTHER -> {}

C14_Union(bet_value) ==
    UNION {C14_LegNumbers(bet_value[i]) : i \in 1..Len(bet_value)}

\* C14: in multiple mode, when the cheat draw fell below the threshold, the
\* cheat step picks the number from the union over the legs of the numbers
\* that satisfy the leg (a straight leg's target of 0..36, the red, black,
\* even, odd, low and high sets); when that union is empty the number stays
\* as drawn.
C14_MultipleCheatPicksFromUnion ==
    [][\A t \in Threads :
          (pc[t] = "cheat" /\ pc'[t] = "evaluate" /\ IsMultiple(request[t])
             /\ cheat_boosted'[t]) =>
             IF C14_Union(request[t].bet_value) # {}
             THEN winning_number'[t] \in C14_Union(request[t].bet_value)
             ELSE winning_number'[t] = winning_number[t]]_vars

\* --------------------------------------------------------------------- C15
\* The black pockets as the repository's test lists them.
C15_TestBlack == {2, 4, 6, 8, 10, 11, 13, 15, 17, 20, 22, 24, 26, 28, 29, 31, 33, 35}

C15_Pockets(c) == {n \in Numbers : get_color(n) = c}

\* C15: the wheel coloring gives every number of 0..36 exactly one color:
\* 0 is green, the 18 listed numbers are red and the 18 others are black; red
\* and black are disjoint and cover 0..36 together with {0}; a drawn number
\* gets its color from this coloring.
C15_ColoringIsTotal ==
    \A t \in Threads :
        pc[t] = "cheat" =>
            /\ color[t] = IF winning_number[t] = 0 THEN "green"
                          ELSE IF winning_number[t] \in WheelRed THEN "red"
                          ELSE "black"
            /\ \A n \in Numbers : get_color(n) \in {"green", "red", "black"}
            /\ C15_Pockets("green") = {0}
            /\ C15_Pockets("red") = WheelRed
            /\ Cardinality(C15_Pockets("red")) = 18
            /\ C15_Pockets("black") = C15_TestBlack
            /\ Cardinality(C15_Pockets("black")) = 18
            /\ C15_Pockets("red") \cap C15_Pockets("black") = {}
            /\ C15_Pockets("red") \cup C15_Pockets("black") \cup {0} = 0..36

\* The draw landed on 0 and colored it green.
C15_Witness ==
    \E t \in Threads :
        pc[t] = "cheat" /\ winning_number[t] = 0 /\ color[t] = "green"

\* --------------------------------------------------------------------- C16
WheelColor(n) ==
    IF n = 0 THEN "green" ELSE IF n \in WheelRed THEN "red" ELSE "black"

\* C16: once the cheat step is over, the number is in 0..36 and the color is
\* the wheel color of that number, cheat or not; a single-mode red or black
\* bet is evaluated against that color, and the response carries that number
\* and that color.
C16_OutcomeOnWheel ==
    \A t \in Threads :
        /\ pc[t] \in {"evaluate", "house", "save", "record", "return", "done"} =>
              /\ winning_number[t] \in 0..36
              /\ color[t] = WheelColor(winning_number[t])
        /\ (pc[t] = "house" /\ C12_ColorBet(t)) =>
              win[t] = (WheelColor(winning_number[t]) = BetType(request[t]))
        /\ pc[t] = "done" =>
              /\ response[t][1].winning_number = winning_number[t]
              /\ response[t][1].winning_number \in 0..36
              /\ response[t][1].color = WheelColor(response[t][1].winning_number)

\* A response whose number was forced by the cheat to the straight target 17.
C16_Witness ==
    \E t \in Threads :
        /\ pc[t] = "done" /\ cheat_boosted[t]
        /\ BetType(request[t]) = "straight"
        /\ response[t][1].winning_number = 17
        /\ response[t][1].color = "black"

\* --------------------------------------------------------------------- C17
\* The legs of a request that are straight legs on 0, by target or, in single
\* mode, by a map key that parses to 0.
C17_ZeroLegs(req) ==
    {i \in 1..Len(req.bet_value) :
        /\ req.bet_value[i].type = "straight" \/ ~IsMultiple(req)
        /\ \/ LegTarget(req.bet_value[i]) = {0}
           \/ /\ ~IsMultiple(req)
              /\ KeyNumber(req.bet_value[i].key).exc = ""
              /\ KeyNumber(req.bet_value[i].key).n = 0}

RECURSIVE C17_Stake(_, _)
C17_Stake(req, S) ==
    IF S = {} THEN 0
    ELSE LET i == CHOOSE j \in S : TRUE
         IN  req.bet_value[i].amount + C17_Stake(req, S \ {i})

\* C17: on the final number 0 a single-mode red, black, even, odd, low or high
\* bet loses and pays 0; a single-mode straight bet and a multiple-mode bet win
\* only through a straight leg on 0, and a multiple-mode bet is paid for
\* nothing but its straight legs on 0.
C17_ZeroBeatsOutsideBets ==
    \A t \in Threads :
        (pc[t] = "house" /\ winning_number[t] = 0) =>
            /\ (~IsMultiple(request[t]) /\ BetType(request[t]) \in EvenMoneyKinds) =>
                  ~win[t] /\ payout[t] = 0
            /\ (~IsMultiple(request[t]) /\ BetType(request[t]) = "straight" /\ win[t]) =>
                  C17_ZeroLegs(request[t]) # {}
            /\ IsMultiple(request[t]) =>
                  /\ win[t] => C17_ZeroLegs(request[t]) # {}
                  /\ payout[t] <= 36 * C17_Stake(request[t], C17_ZeroLegs(request[t]))

\* Number 0 with an even leg and a straight leg on 0: only the straight leg
\* (amount 2) is paid.
C17_Witness ==
    \E t \in Threads :
        /\ pc[t] = "house" /\ winning_number[t] = 0
        /\ IsMultiple(request[t])
        /\ \E i \in 1..Len(request[t].bet_value) : request[t].bet_value[i].type = "even"
        /\ win[t] /\ payout[t] = 72

\* --------------------------------------------------------------------- C18
\* The amount a single-mode spin is played with: the request's, 10 when the
\* request carries none (0).
C18_SingleStake(req) == IF req.bet_amount = 0 THEN 10 ELSE req.bet_amount

C19_Own(t) ==
    <<house_advantage_enabled[t], winning_number[t], color[t], cheat_boosted[t],
      win[t], payout[t], response[t], game_result[t]>>

\* C19: a spin is resolved from its own request, the flag value and its own
\* draws alone. A step of another worker changes nothing worker t has
\* computed; t's cheat step follows t's own cheat flags; t's evaluation is
\* the color rule applied to t's own bet, amount and number; and t's response
\* and sink record carry t's own values.
C19_SpinsDoNotInterfere ==
    [][\A t \in Threads :
          /\ pc'[t] = pc[t] => C19_Own(t)' = C19_Own(t)
          /\ (pc[t] = "cheat" /\ pc'[t] = "evaluate" /\ ~request[t].cheat_active) =>
                /\ winning_number'[t] = winning_number[t]
                /\ ~cheat_boosted'[t]
          /\ (pc[t] = "evaluate" /\ pc'[t] = "house") =>
                /\ win'[t] = (WheelColor(winning_number[t]) = request[t].bet_type)
                /\ payout'[t] = IF win'[t] THEN 2 * request[t].bet_amount ELSE 0
          /\ (pc[t] = "record" /\ pc'[t] = "return") =>
                /\ game_result'[t][1].betAmount = request[t].bet_amount
                /\ game_result'[t][1].payout = payout[t]
                /\ game_result'[t][1].winning_number = winning_number[t]
                /\ game_result'[t][1].bet_type = request[t].bet_type
          /\ (pc[t] = "return" /\ pc'[t] = "done") =>
                /\ response'[t][1].winning_number = winning_number[t]
                /\ response'[t][1].color = color[t]
                /\ response'[t][1].win = win[t]
                /\ response'[t][1].payout = payout[t]
                /\ response'[t][1].cheat_active = request[t].cheat_active
                /\ response'[t][1].cheat_boosted = cheat_boosted[t]]_vars

\* Two concurrent spins of one player have returned: worker 1's boosted black
\* bet won, worker 2's red bet lost on the same number.
C19_Witness ==
    /\ pc[1] = "done" /\ pc[2] = "done"
    /\ request[1].cheat_active /\ ~request[2].cheat_active
    /\ request[1].player_info = request[2].player_info
    /\ cheat_boosted[1] /\ ~cheat_boosted[2]
    /\ response[1][1].win /\ ~response[2][1].win
    /\ response[1][1].winning_number = response[2][1].winning_number

\* --------------------------------------------------------------------- C20
\* The kind and the amount of a spin with one bet: a single-mode bet, or a
\* multiple-mode bet of one leg.
C20_Kind(req) ==
    IF IsMultiple(req) THEN req.bet_value[1].type ELSE BetType(req)

C20_Amount(req) ==
    IF IsMultiple(req) THEN req.bet_value[1].amount ELSE C18_SingleStake(req)

C20_OneBet(t) ==
    /\ pc[t] = "house" /\ win[t]
    /\ IsMultiple(request[t]) => Len(request[t].bet_value) = 1
    /\ C20_Kind(request[t]) \in {"straight", "red", "black", "even", "odd"}

C20_Pays(straight, other) ==
    \A t \in Threads :
        C20_OneBet(t) =>
            payout[t] = C20_Amount(request[t])
                        * (IF C20_Kind(request[t]) = "straight" THEN straight ELSE other)

C21_CheatPickWins ==
    [][\A t \in Threads :
          (pc[t] = "cheat" /\ pc'[t] = "evaluate"
             /\ winning_number'[t] # winning_number[t]) =>
             LET e == Evaluation(request[t], winning_number'[t], color'[t])
             IN  e.exc = "" /\ e.win]_vars

\* --------------------------------------------------------------------- C22
\* The single-mode request with the kind, amount and target of a leg.
C22_SingleOf(req) ==
    Request(req.bet_value[1].type, req.bet_value[1].amount, req.bet_value, req.cheat_active,
            req.cheat_type, req.player_info)

\* C22: a multiple-mode spin of exactly one leg of a known kind (a straight
\* leg with an integer target of 0..36) has the raw win and payout that the
\* single-mode evaluation of the same kind, amount and target gives on the
\* same number.
C22_ModesAgreeOnOneLeg ==
    \A t \in Threads :
        (/\ pc[t] = "house" /\ IsMultiple(request[t])
         /\ Len(request[t].bet_value) = 1
         /\ request[t].bet_value[1].type \in EvenMoneyKinds \cup {"straight"}
         /\ request[t].bet_value[1].type = "straight" =>
               LegTarget(request[t].bet_value[1]) # {}) =>
            LET e == Evaluation(C22_SingleOf(request[t]), winning_number[t], color[t])
            IN  e.exc = "" /\ win[t] = e.win /\ payout[t] = e.payout

\* --------------------------------------------------------------------- C23
\* C23: once a spin is evaluated, and after the house advantage, it is won
\* exactly when its payout is above 0; the win flag of the response and the
\* win flag of the sink record are the same.
C23_WonIffPaid ==
    \A t \in Threads :
        /\ pc[t] \in {"house", "save", "record", "return", "done"} =>
              win[t] = (payout[t] > 0)
        /\ pc[t] = "done" =>
              response[t][1].win = game_result[t][1].win

\* --------------------------------------------------------------------- C24
C24_Reported(r) == <<r.winning_number, r.color, r.payout, r.cheat_boosted>>

\* C24: when a spin has returned, its response, its sink record and, with the
\* state store available, the record saved for its player carry the same
\* winning number, color, payout and cheat_boosted: the values left by the
\* cheat and house-advantage steps.
C24_ReportsAgree ==
    \A t \in Threads :
        pc[t] = "done" =>
            LET final == <<winning_number[t], color[t], payout[t], cheat_boosted[t]>>
            IN  /\ C24_Reported(response[t][1]) = final
                /\ C24_Reported(game_result[t][1]) = final
                /\ (redis_client = "connected" /\ redis_up) =>
                      /\ redis[Username(request[t])] # <<>>
                      /\ C24_Reported(redis[Username(request[t])][1]) = final

\* A boosted red bet whose win the house advantage took away: every report
\* carries payout 0.
C24_Witness ==
    \E t \in Threads :
        /\ pc[t] = "done" /\ house_advantage_enabled[t]
        /\ ~IsMultiple(request[t]) /\ BetType(request[t]) = "red"
        /\ cheat_boosted[t] /\ ~win[t]
        /\ redis_client = "connected" /\ redis_up
        /\ redis[Username(request[t])] # <<>>
        /\ redis[Username(request[t])][1].payout = 0
        /\ game_result[t][1].payout = 0
        /\ response[t][1].payout = 0

\* --------------------------------------------------------------------- C25
\* The complete game-state record of worker t's spin.
C25_RecordOf(t) ==
    [winning_number |-> winning_number[t], color |-> color[t], win |-> win[t],
     payout |-> payout[t], bet_amount |-> request[t].bet_amount,
     bet_type |-> request[t].bet_type, cheat_active |-> request[t].cheat_active,
     cheat_type |-> request[t].cheat_type, cheat_boosted |-> cheat_boosted[t]]

C25_Player(t) == IF request[t].player_info = "" THEN "Anonymous" ELSE request[t].player_info

C25_Saved(t) == pc[t] \in {"record", "return", "done"}

\* The record stored for every identity is the whole record of one spin of
\* that identity that has saved.
C25_WholeRecord ==
    \A u \in Usernames :
        redis[u] # <<>> =>
            \E t \in Threads :
                C25_Saved(t) /\ C25_Player(t) = u /\ redis[u] = <<C25_RecordOf(t)>>

\* C25 as stated: the stored record is always the whole record of one spin,
\* and when the last of the spins of one identity returns, the stored record
\* is the record of that spin.
C25_LastReturnedIsStored ==
    [][/\ C25_WholeRecord'
       /\ \A t \in Threads :
             (/\ pc[t] = "return" /\ pc'[t] = "done"
              /\ \A o \in Threads \ {t} : pc[o] \in {"idle", "done"}) =>
                redis'[C25_Player(t)] = <<C25_RecordOf(t)>>]_vars

\* C25 amended: the stored record is always the whole record of one spin; it
\* is replaced only by a save, which stores the whole record of the saving
\* spin, so it is always the record of the spin that saved last.
C25_LastSavedIsStored ==
    [][/\ C25_WholeRecord'
       /\ \A t \in Threads :
             IF pc[t] = "save" /\ pc'[t] = "record"
             THEN redis' = [redis EXCEPT ![C25_Player(t)] = <<C25_RecordOf(t)>>]
             ELSE (\A o \in Threads : ~(pc[o] = "save" /\ pc'[o] = "record")) =>
                     redis' = redis]_vars

\* Both spins of one player have returned with different numbers, and the
\* stored record is the whole record of worker 2's spin.
C25_Witness ==
    /\ pc[1] = "done" /\ pc[2] = "done"
    /\ C25_Player(1) = C25_Player(2)
    /\ winning_number[1] # winning_number[2]
    /\ request[1].bet_type # request[2].bet_type
    /\ redis[C25_Player(2)] = <<C25_RecordOf(2)>>

====
